---- MODULE Spec2Model ----
(***************************************************************************)
(* Model of humanize/number.py: the six number humanizing functions        *)
(* ordinal, intcomma, intword, apnumber, fractional and scientific.        *)
(*                                                                         *)
(* Text is a sequence of one-character strings.  The superscript glyphs of *)
(* scientific() are written "^0" .. "^9", "^+", "^-".                      *)
(*                                                                         *)
(* A Python int is [sign, m, e] standing for sign * m * 10^e, so that     *)
(* values up to a googol fit; a Python float is the same triple with an    *)
(* integer e of either sign (or "inf" / "nan"), i.e. floats are modelled   *)
(* by their shortest decimal, and float arithmetic as exact decimal        *)
(* arithmetic.  That is faithful where the binary float is exact enough:   *)
(* float inputs have at most MaxExactDigits significant digits, and where  *)
(* the decimal value lies exactly half-way between two roundings (in the   *)
(* "%.Nf" and "{:.Ne}" formats and in limit_denominator) the direction is  *)
(* a nondeterministic choice, since the binary float may lie on either     *)
(* side.                                                                   *)
(*                                                                         *)
(* A translated word ("million", "one", ...) is a single token of a text.  *)
(***************************************************************************)
EXTENDS Integers, Sequences, FiniteSets, TLC

VARIABLES input, op, arg, pc, cur, start, passes, result, round, first

vars == <<input, op, arg, pc, cur, start, passes, result, round, first>>

(***************************************************************************)
(* Characters and small helpers                                            *)
(***************************************************************************)
Digs == <<"0", "1", "2", "3", "4", "5", "6", "7", "8", "9">>

DigitSet == {Digs[i] : i \in 1..10}

DigitChar(d) == Digs[d + 1]

DigitVal(c) == CHOOSE d \in 0..9 : Digs[d + 1] = c

IsDigit(c) == c \in DigitSet

RECURSIVE Pow10(_)
Pow10(k) == IF k <= 0 THEN 1 ELSE 10 * Pow10(k - 1)

Zeros(k) == [i \in 1..k |-> "0"]

Abs(x) == IF x < 0 THEN 0 - x ELSE x

\* str(n) / "%d" % n for a natural number n
RECURSIVE NatToStr(_)
NatToStr(n) == IF n < 10 THEN <<DigitChar(n)>>
               ELSE Append(NatToStr(n \div 10), DigitChar(n % 10))

\* number of decimal digits of a natural number
NumDigits(n) == Len(NatToStr(n))

\* value of a run of digit characters
RECURSIVE DigitsVal(_)
DigitsVal(ds) == IF ds = <<>> THEN 0
                 ELSE 10 * DigitsVal(SubSeq(ds, 1, Len(ds) - 1)) + DigitVal(ds[Len(ds)])

\* first index >= i of s that holds no digit (Len(s) + 1 when there is none)
DigitRunEnd(s, i) ==
  LET stops == {j \in i..Len(s) : ~IsDigit(s[j])}
  IN IF stops = {} THEN (IF i > Len(s) THEN i ELSE Len(s) + 1)
     ELSE CHOOSE j \in stops : \A k \in stops : j <= k

\* "sub in s"
Contains(s, sub) ==
  \E i \in 1..(Len(s) - Len(sub) + 1) : SubSeq(s, i, i + Len(sub) - 1) = sub

\* s.replace(c, ""): every occurrence of the character c removed
Remove(s, c) == SelectSeq(s, LAMBDA x : x # c)

\* s.replace(pat, rep): every non-overlapping occurrence, left to right
RECURSIVE Replace(_, _, _)
Replace(s, pat, rep) ==
  IF Len(s) < Len(pat) \/ pat = <<>> THEN s
  ELSE IF SubSeq(s, 1, Len(pat)) = pat
       THEN rep \o Replace(SubSeq(s, Len(pat) + 1, Len(s)), pat, rep)
       ELSE <<s[1]>> \o Replace(SubSeq(s, 2, Len(s)), pat, rep)

\* s.split(c) for a one-character separator: the sequence of parts
RECURSIVE Split(_, _)
Split(s, c) ==
  IF \A i \in 1..Len(s) : s[i] # c THEN <<s>>
  ELSE LET k == CHOOSE i \in 1..Len(s) : s[i] = c /\ \A j \in 1..(i - 1) : s[j] # c
       IN <<SubSeq(s, 1, k - 1)>> \o Split(SubSeq(s, k + 1, Len(s)), c)

(***************************************************************************)
(* Python values                                                           *)
(***************************************************************************)
MkInt(sg, m, e)   == [kind |-> "int", sp |-> "fin", sign |-> sg, m |-> m, e |-> e, s |-> <<>>]
MkFloat(sg, m, e) == [kind |-> "float", sp |-> "fin", sign |-> sg, m |-> m, e |-> e, s |-> <<>>]
InfV(sg)          == [kind |-> "float", sp |-> "inf", sign |-> sg, m |-> 0, e |-> 0, s |-> <<>>]
NanV              == [kind |-> "float", sp |-> "nan", sign |-> 1, m |-> 0, e |-> 0, s |-> <<>>]
MkStr(t)          == [kind |-> "str", sp |-> "fin", sign |-> 1, m |-> 0, e |-> 0, s |-> t]
NoneV             == [kind |-> "none", sp |-> "fin", sign |-> 1, m |-> 0, e |-> 0, s |-> <<>>]
ObjV              == [kind |-> "obj", sp |-> "fin", sign |-> 1, m |-> 0, e |-> 0, s |-> <<>>]

\* outcome of a call: a returned value or an escaping exception
Ret(v)     == [tag |-> "ret", val |-> v, exc |-> "none"]
Raise(x)   == [tag |-> "raise", val |-> NoneV, exc |-> x]
NoResult   == [tag |-> "none", val |-> NoneV, exc |-> "none"]

\* outcome of a coercion: a value or the exception it throws
Ok(v)      == [ok |-> TRUE, val |-> v, exc |-> "none"]
Err(x)     == [ok |-> FALSE, val |-> NoneV, exc |-> x]

(***************************************************************************)
(* Conversions: str(), int(), float()                                      *)
(***************************************************************************)
\* the same float with the trailing zeros of its digits moved to the exponent
RECURSIVE NormDec(_, _, _)
NormDec(sg, m, e) ==
  IF m = 0 THEN MkFloat(sg, 0, 0)
  ELSE IF m % 10 = 0 THEN NormDec(sg, m \div 10, e + 1)
  ELSE MkFloat(sg, m, e)

SignText(sg) == IF sg < 0 THEN <<"-">> ELSE <<>>

\* exponent text of repr(float) and of the "e" format: sign and at least two digits
ExpText(x) ==
  (IF x < 0 THEN <<"-">> ELSE <<"+">>)
     \o (IF Abs(x) < 10 THEN <<"0">> ELSE <<>>) \o NatToStr(Abs(x))

IntStr(v) == IF v.m = 0 THEN <<"0">> ELSE SignText(v.sign) \o NatToStr(v.m) \o Zeros(v.e)

\* repr(float): the shortest digits, positional for 1e-4 <= |x| < 1e16
FloatStr(v) ==
  IF v.sp = "inf" THEN SignText(v.sign) \o <<"i", "n", "f">>
  ELSE IF v.sp = "nan" THEN <<"n", "a", "n">>
  ELSE LET f  == NormDec(v.sign, v.m, v.e)
           ds == NatToStr(f.m)
           n  == Len(ds)
           x  == n - 1 + f.e
       IN IF f.m = 0 THEN SignText(f.sign) \o <<"0", ".", "0">>
          ELSE IF x >= -4 /\ x < 16
          THEN SignText(f.sign) \o
               (IF f.e >= 0 THEN ds \o Zeros(f.e) \o <<".", "0">>
                ELSE IF n > 0 - f.e
                     THEN SubSeq(ds, 1, n + f.e) \o <<".">> \o SubSeq(ds, n + f.e + 1, n)
                     ELSE <<"0", ".">> \o Zeros(0 - f.e - n) \o ds)
          ELSE SignText(f.sign) \o <<ds[1]>>
               \o (IF n > 1 THEN <<".">> \o SubSeq(ds, 2, n) ELSE <<>>)
               \o <<"e">> \o ExpText(x)

ObjText == <<"<", "o", "b", "j", ">">>

\* str(value)
Str(v) ==
  CASE v.kind = "int"   -> IntStr(v)
    [] v.kind = "float" -> FloatStr(v)
    [] v.kind = "str"   -> v.s
    [] v.kind = "none"  -> <<"N", "o", "n", "e">>
    [] OTHER            -> ObjText

SignLen(s) == IF Len(s) >= 1 /\ s[1] \in {"-", "+"} THEN 1 ELSE 0

SignOf(s) == IF Len(s) >= 1 /\ s[1] = "-" THEN -1 ELSE 1

\* the float sg * ds * 10^e for a run of digits ds
DecOfDigits(sg, ds, e) ==
  LET nz == {i \in 1..Len(ds) : ds[i] # "0"}
      lo == CHOOSE i \in nz : \A j \in nz : i <= j
      hi == CHOOSE i \in nz : \A j \in nz : i >= j
  IN IF nz = {} THEN MkFloat(sg, 0, 0)
     ELSE MkFloat(sg, DigitsVal(SubSeq(ds, lo, hi)), e + Len(ds) - hi)

\* float(text): [sign] digits [. digits] [e [sign] digits], or inf / nan
ParseFloat(s) ==
  LET i0   == 1 + SignLen(s)
      body == SubSeq(s, i0, Len(s))
      i1   == DigitRunEnd(s, i0)
      dot  == i1 <= Len(s) /\ s[i1] = "."
      i2   == IF dot THEN DigitRunEnd(s, i1 + 1) ELSE i1
      ipart == SubSeq(s, i0, i1 - 1)
      fpart == IF dot THEN SubSeq(s, i1 + 1, i2 - 1) ELSE <<>>
      hasE == i2 <= Len(s) /\ s[i2] = "e"
      rest == SubSeq(s, i2 + 1, Len(s))
      j0   == 1 + SignLen(rest)
      j1   == DigitRunEnd(rest, j0)
      ex   == SignOf(rest) * DigitsVal(SubSeq(rest, j0, j1 - 1))
  IN IF body = <<"i", "n", "f">> THEN Ok(InfV(SignOf(s)))
     ELSE IF body = <<"n", "a", "n">> THEN Ok(NanV)
     ELSE IF Len(ipart) + Len(fpart) = 0 THEN Err("ValueError")
     ELSE IF hasE
          THEN IF j1 > j0 /\ j1 = Len(rest) + 1
               THEN Ok(DecOfDigits(SignOf(s), ipart \o fpart, ex - Len(fpart)))
               ELSE Err("ValueError")
          ELSE IF i2 = Len(s) + 1
               THEN Ok(DecOfDigits(SignOf(s), ipart \o fpart, 0 - Len(fpart)))
               ELSE Err("ValueError")

\* the int with the value of a float that holds an integer
IntOfDec(f) == MkInt(IF f.m = 0 THEN 1 ELSE f.sign, f.m, f.e)

\* the int sg * m * 10^e
NormInt(sg, m, e) == IntOfDec(NormDec(sg, m, e))

\* int(text): an optional sign and one or more digits
ParseInt(s) ==
  LET i0 == 1 + SignLen(s)
      i1 == DigitRunEnd(s, i0)
  IN IF i1 > i0 /\ i1 = Len(s) + 1
     THEN Ok(IntOfDec(DecOfDigits(SignOf(s), SubSeq(s, i0, i1 - 1), 0)))
     ELSE Err("ValueError")

\* int(float): truncation toward zero
Trunc(v) ==
  IF v.e >= 0 THEN IntOfDec(v)
  ELSE IF 0 - v.e >= 10 THEN MkInt(1, 0, 0)
  ELSE NormInt(v.sign, v.m \div Pow10(0 - v.e), 0)

\* int(value)
ToInt(v) ==
  CASE v.kind = "int"   -> Ok(v)
    [] v.kind = "float" -> IF v.sp = "inf" THEN Err("OverflowError")
                           ELSE IF v.sp = "nan" THEN Err("ValueError")
                           ELSE Ok(Trunc(v))
    [] v.kind = "str"   -> ParseInt(v.s)
    [] OTHER            -> Err("TypeError")

\* float(value)
ToFloat(v) ==
  CASE v.kind = "int"   -> Ok(MkFloat(v.sign, v.m, v.e))
    [] v.kind = "float" -> Ok(v)
    [] v.kind = "str"   -> ParseFloat(v.s)
    [] OTHER            -> Err("TypeError")

\* "except (TypeError, ValueError)"
Caught(x) == x \in {"TypeError", "ValueError"}

(***************************************************************************)
(* Number formatting                                                       *)
(***************************************************************************)
\* m / 10^k rounded to the nearest integer.  The float behind a decimal tie
\* lies a little above or below it (or on it, and then the even neighbour is
\* taken), so a tie goes up or down: tieUp says which.
RoundNearest(m, k, tieUp) ==
  IF k <= 0 THEN m * Pow10(0 - k)
  ELSE IF k >= 10 THEN 0
  ELSE LET q == m \div Pow10(k)
           r == m % Pow10(k)
           h == 5 * Pow10(k - 1)
       IN IF r > h \/ (r = h /\ tieUp) THEN q + 1 ELSE q

\* "%.<prec>f" % f for a finite float f
FormatF(prec, f, tieUp) ==
  LET u  == IF f.e + prec >= 0 THEN NatToStr(f.m) \o (IF f.m = 0 THEN <<>> ELSE Zeros(f.e + prec))
            ELSE NatToStr(RoundNearest(f.m, 0 - f.e - prec, tieUp))
      up == Zeros(prec + 1 - Len(u)) \o u
      n  == Len(up)
  IN SignText(f.sign) \o SubSeq(up, 1, n - prec)
       \o (IF prec > 0 THEN <<".">> \o SubSeq(up, n - prec + 1, n) ELSE <<>>)

\* "{:.<prec>e}".format(f) for a float f
FormatE(prec, f, tieUp) ==
  IF f.sp = "inf" THEN SignText(f.sign) \o <<"i", "n", "f">>
  ELSE IF f.sp = "nan" THEN <<"n", "a", "n">>
  ELSE LET n   == NumDigits(f.m)
           q0  == RoundNearest(f.m, n - (prec + 1), tieUp)
           up  == q0 = Pow10(prec + 1)
           q   == IF up THEN Pow10(prec) ELSE q0
           x   == IF f.m = 0 THEN 0 ELSE (n - 1 + f.e) + (IF up THEN 1 ELSE 0)
           ds  == IF f.m = 0 THEN Zeros(prec + 1) ELSE NatToStr(q)
       IN SignText(f.sign) \o <<ds[1]>>
            \o (IF prec > 0 THEN <<".">> \o SubSeq(ds, 2, prec + 1) ELSE <<>>)
            \o <<"e">> \o ExpText(x)

(***************************************************************************)
(* ordinal                                                                 *)
(***************************************************************************)
\* value % k for k = 10 or 100: Python's remainder, in 0 .. k - 1
IntMod(v, k) ==
  IF v.e >= 2 THEN 0 ELSE (v.sign * ((v.m % 100) * Pow10(v.e))) % k

\* the tuple t of suffixes, indexed by the last digit
t == << <<"t", "h">>, <<"s", "t">>, <<"n", "d">>, <<"r", "d">>, <<"t", "h">>,
        <<"t", "h">>, <<"t", "h">>, <<"t", "h">>, <<"t", "h">>, <<"t", "h">> >>

\* ordinal without the special case for 11, 12 and 13
OrdinalTextNoTeens(n) == IntStr(n) \o t[IntMod(n, 10) + 1]

OrdinalText(n) ==
  IF IntMod(n, 100) \in {11, 12, 13}
  THEN IntStr(n) \o t[1]
  ELSE IntStr(n) \o t[IntMod(n, 10) + 1]

ordinal(value) ==
  LET c == ToInt(value)
  IN IF ~c.ok THEN (IF Caught(c.exc) THEN Ret(value) ELSE Raise(c.exc))
     ELSE Ret(MkStr(OrdinalText(c.val)))

(***************************************************************************)
(* apnumber                                                                *)
(***************************************************************************)
ApWords == <<"one", "two", "three", "four", "five", "six", "seven", "eight", "nine">>

apnumber(value) ==
  LET c == ToInt(value)
  IN IF ~c.ok THEN (IF Caught(c.exc) THEN Ret(value) ELSE Raise(c.exc))
     ELSE IF ~(c.val.sign > 0 /\ c.val.e = 0 /\ c.val.m \in 1..9)
          THEN Ret(MkStr(IntStr(c.val)))
          ELSE Ret(MkStr(<<ApWords[c.val.m]>>))

(***************************************************************************)
(* intword                                                                 *)
(***************************************************************************)
\* powers, by their exponents: powers[i] of the source is 10^PowerExps[i + 1]
PowerExps == <<6, 9, 12, 15, 18, 21, 24, 27, 30, 33, 100>>

human_powers == <<"million", "billion", "trillion", "quadrillion", "quintillion",
                  "sextillion", "septillion", "octillion", "nonillion", "decillion",
                  "googol">>

\* value < 10^k
LessPow10(v, k) == v.sign < 0 \/ v.m = 0 \/ NumDigits(v.m) + v.e <= k

\* value / float(10^k)
Chopped(v, k) == NormDec(v.sign, v.m, v.e - k)

\* float(text) == float(10 ** 3)
IsThousand(text) ==
  LET c == ParseFloat(text) IN c.ok /\ c.val = MkFloat(1, 1, 3)

\* the loop body without the promotion to the next power
IntwordAtNoPromotion(v, prec, tieUp, i) ==
  FormatF(prec, Chopped(v, PowerExps[i]), tieUp) \o <<" ", human_powers[i]>>

\* the body of the for loop for one index (ordinal of the source), value < powers[i]
IntwordAt(v, prec, tieUp, i) ==
  LET chopped == Chopped(v, PowerExps[i])
  IN IF IsThousand(FormatF(prec, chopped, tieUp))
     THEN FormatF(prec, Chopped(v, PowerExps[i + 1]), tieUp) \o <<" ", human_powers[i + 1]>>
     ELSE FormatF(prec, chopped, tieUp) \o <<" ", human_powers[i]>>

\* format is "%.<prec>f"
intword(value, prec, tieUp) ==
  LET c == ToInt(value)
  IN IF ~c.ok THEN (IF Caught(c.exc) THEN Ret(value) ELSE Raise(c.exc))
     ELSE LET v == c.val
              hits == {i \in 1..10 : LessPow10(v, PowerExps[i + 1])}
          IN IF LessPow10(v, PowerExps[1]) THEN Ret(MkStr(IntStr(v)))
             ELSE IF hits = {} THEN Ret(MkStr(IntStr(v)))
             ELSE Ret(MkStr(IntwordAt(v, prec, tieUp, CHOOSE i \in hits : \A j \in hits : i <= j)))

(***************************************************************************)
(* fractional                                                              *)
(***************************************************************************)
RECURSIVE Gcd(_, _)
Gcd(a, b) == IF b = 0 THEN a ELSE Gcd(b, a % b)

\* Fraction(n, d) in lowest terms, d > 0
Frac(n, d) == LET g == Gcd(Abs(n), d) IN [num |-> n \div g, den |-> d \div g]

\* abs(p/q - n/d) <= abs(r/s - n/d); the float n/d stands for is a little off
\* n/d, so that equal distances compare one way or the other: tieUp says which
NoFarther(p, q, r, s, n, d, tieUp) ==
  LET a == Abs(p * d - n * q) * s
      b == Abs(r * d - n * s) * q
  IN a < b \/ (a = b /\ tieUp)

\* limit_denominator that always answers with the last convergent
RECURSIVE LimitLoopConvergent(_, _, _, _, _, _, _, _, _, _)
LimitLoopConvergent(p0, q0, p1, q1, n, d, maxd, num, den, tieUp) ==
  LET a  == n \div d
      q2 == q0 + a * q1
  IN IF q2 > maxd THEN Frac(p1, q1)
     ELSE LimitLoopConvergent(p1, q1, p0 + a * p1, q2, d, n - a * d, maxd, num, den, tieUp)

\* the while loop of Fraction.limit_denominator and the choice between its two bounds
RECURSIVE LimitLoop(_, _, _, _, _, _, _, _, _, _)
LimitLoop(p0, q0, p1, q1, n, d, maxd, num, den, tieUp) ==
  LET a  == n \div d
      q2 == q0 + a * q1
  IN IF q2 > maxd
     THEN LET k  == (maxd - q0) \div q1
              b1 == Frac(p0 + k * p1, q0 + k * q1)
              b2 == Frac(p1, q1)
          IN IF NoFarther(b2.num, b2.den, b1.num, b1.den, num, den, tieUp) THEN b2 ELSE b1
     ELSE LimitLoop(p1, q1, p0 + a * p1, q2, d, n - a * d, maxd, num, den, tieUp)

\* Fraction(num, den).limit_denominator(maxd)
LimitDenominator(f, maxd, tieUp) ==
  IF f.den <= maxd THEN f
  ELSE LimitLoop(0, 1, 1, 0, f.num, f.den, maxd, f.num, f.den, tieUp)

max_denominator == 1000

\* number - whole_number, as an exact fraction
Remainder(number) ==
  IF number.e >= 0 THEN Frac(0, 1)
  ELSE Frac(number.sign * (number.m % Pow10(0 - number.e)), Pow10(0 - number.e))

\* "{:.0f}".format(k) for an integer k
SmallIntText(k) == SignText(k) \o NatToStr(Abs(k))

FractionalText(number, tieUp) ==
  LET whole_number == Trunc(number)
      frac         == LimitDenominator(Remainder(number), max_denominator, tieUp)
      numerator    == frac.num
      denominator  == frac.den
  IN IF whole_number.m # 0 /\ numerator = 0 /\ denominator = 1
     THEN IntStr(whole_number)
     ELSE IF whole_number.m = 0
     THEN SmallIntText(numerator) \o <<"/">> \o SmallIntText(denominator)
     ELSE IntStr(whole_number) \o <<" ">>
            \o SmallIntText(numerator) \o <<"/">> \o SmallIntText(denominator)

fractional(value, tieUp) ==
  LET c == ToFloat(value)
  IN IF ~c.ok THEN (IF Caught(c.exc) THEN Ret(value) ELSE Raise(c.exc))
     ELSE LET w == ToInt(c.val)
          IN IF ~w.ok THEN Raise(w.exc)
             ELSE Ret(MkStr(FractionalText(c.val, tieUp)))

(***************************************************************************)
(* scientific                                                              *)
(***************************************************************************)
GlyphKeys == DigitSet \cup {"+", "-"}

\* the exponents table
exponents(c) ==
  CASE c = "0" -> "^0" [] c = "1" -> "^1" [] c = "2" -> "^2" [] c = "3" -> "^3"
    [] c = "4" -> "^4" [] c = "5" -> "^5" [] c = "6" -> "^6" [] c = "7" -> "^7"
    [] c = "8" -> "^8" [] c = "9" -> "^9" [] c = "+" -> "^+" [] c = "-" -> "^-"

\* "-" in str(value), and the value after the replace
HasMinus(value) == Contains(Str(value), <<"-">>)

Stripped(value) ==
  IF HasMinus(value) THEN MkStr(Remove(Str(value), "-")) ELSE value

\* the exponent text after the two replacements
NormalizeExp(part2) ==
  LET a == IF Contains(part2, <<"-", "0">>) THEN Replace(part2, <<"-", "0">>, <<"-">>)
           ELSE part2
  IN IF Contains(a, <<"+", "0">>) THEN Replace(a, <<"+", "0">>, <<>>) ELSE a

\* everything after the try block: n is the formatted number
ScientificText(n, negative) ==
  LET parts == Split(n, "e")
  IN IF Len(parts) # 2 THEN Raise("ValueError")
     ELSE LET part1 == parts[1]
              part2 == NormalizeExp(parts[2])
          IN IF \E i \in 1..Len(part2) : part2[i] \notin GlyphKeys THEN Raise("KeyError")
             ELSE Ret(MkStr(part1 \o <<" ", "x", " ", "1", "0">>
                            \o (IF negative THEN <<exponents("-")>> ELSE <<>>)
                            \o [i \in 1..Len(part2) |-> exponents(part2[i])]))

scientific(value, precision, tieUp) ==
  LET negative == HasMinus(value)
      v1       == Stripped(value)
      c        == IF v1.kind = "str" THEN ParseFloat(v1.s) ELSE Ok(v1)
  IN IF ~c.ok THEN (IF Caught(c.exc) THEN Ret(v1) ELSE Raise(c.exc))
     ELSE IF c.val.kind \notin {"int", "float"} THEN Ret(c.val)
     ELSE ScientificText(FormatE(precision, ToFloat(c.val).val, tieUp), negative)

(***************************************************************************)
(* intcomma                                                                *)
(***************************************************************************)
\* the float() call of the try block
IntcommaCheck(value) ==
  IF value.kind = "str" THEN ParseFloat(Remove(value.s, ","))
  ELSE ToFloat(value)

\* the substitution without the optional minus sign in its pattern
ReSubNoSign(orig) ==
  LET i1 == DigitRunEnd(orig, 1)
  IN IF i1 - 1 >= 4
     THEN SubSeq(orig, 1, i1 - 4) \o <<",">> \o SubSeq(orig, i1 - 3, Len(orig))
     ELSE orig

\* the substitution with a lazy first group: the comma goes after the first digit
ReSubLazy(orig) ==
  LET i0 == IF Len(orig) >= 1 /\ orig[1] = "-" THEN 2 ELSE 1
      i1 == DigitRunEnd(orig, i0)
  IN IF i1 - i0 >= 4
     THEN SubSeq(orig, 1, i0) \o <<",">> \o SubSeq(orig, i0 + 1, Len(orig))
     ELSE orig

\* re.sub(r"^(-?\d+)(\d{3})", r"\g<1>,\g<2>", orig)
ReSub(orig) ==
  LET i0 == IF Len(orig) >= 1 /\ orig[1] = "-" THEN 2 ELSE 1
      i1 == DigitRunEnd(orig, i0)
  IN IF i1 - i0 >= 4
     THEN SubSeq(orig, 1, i1 - 4) \o <<",">> \o SubSeq(orig, i1 - 3, Len(orig))
     ELSE orig

\* intcomma that returns new after one substitution instead of calling itself
IntcommaStepOnce(orig) == [ret |-> TRUE, text |-> ReSub(orig)]

\* one call of intcomma after its try block: the text and whether it is returned
\* (ret) or passed to the recursive call
IntcommaStep(orig) ==
  LET new == ReSub(orig)
  IN IF orig = new THEN [ret |-> TRUE, text |-> new] ELSE [ret |-> FALSE, text |-> new]

(***************************************************************************)
(* Inputs                                                                  *)
(***************************************************************************)
MaxSmall == 125
MaxExp == 40
MaxStrZeros == 3
MaxFracDigits == 4
MaxExactDigits == 15
MaxPrec == 2
MaxPrecision == 3
MaxLen == 3

BigMants == {1, 2, 12, 35, 81, 99994, 99995, 999949, 999951, 999999, 1234567}

FloatMants == {1, 3, 5, 13, 15, 25, 125, 333, 3333, 6667, 9999, 14286, 19999,
               31416, 12345678}

ExpSamples == {-120, -10, -5, 9, 10, 16}

GoogolMants == {1, 10, 15}

Alphabet == {"0", "1", "-", ".", ",", "e", "a"}

IntInputs ==
  {NormInt(sg, m, 0) : sg \in {1, -1}, m \in 0..MaxSmall}
    \cup {NormInt(1, m, e) : m \in BigMants, e \in 0..MaxExp}
    \cup {NormInt(-1, m, 0) : m \in BigMants}
    \cup {NormInt(1, m, 100) : m \in GoogolMants}

FloatInputs ==
  {NormDec(sg, m, e) : sg \in {1, -1}, m \in FloatMants, e \in (0 - MaxFracDigits)..1}
    \cup {NormDec(sg, m, e) : sg \in {1, -1}, m \in {1, 15, 12345}, e \in ExpSamples}
    \cup {MkFloat(1, 0, 0), InfV(1), InfV(-1), NanV}

FreeStrings == UNION {[1..n -> Alphabet] : n \in 0..MaxLen}

SpecialStrings ==
    {<<"1", ",", "2", "3", "4", "5", "6", "7">>,
     <<"1", "2", "3", "4", "5", ",", "6", "7">>,
     <<"1", ",", "2", "3", "4", ",", "5", "6", "7">>,
     <<"-", "1", ",", "2", "3", "4", ",", "5", "6", "7">>,
     <<"1", "2", "3", "4", ",", "5", "6", "7", ".", "5">>,
     <<"1", ".", "5", "e", "-", "1", "0">>,
     <<"-", "1", ".", "5", "e", "-", "1", "0">>,
     <<"2", ".", "5", "e", "+", "1", "0">>,
     <<"+", "1", "2", "3", "4">>,
     <<"1", "e", "-", "0", "5">>,
     <<"-", "1", "e", "-", "0", "5">>,
     <<"1", "e", "5">>,
     <<"f", "o", "o", "-", "b", "a", "r">>}

StrInputs ==
  {MkStr(s) : s \in FreeStrings \cup SpecialStrings}
    \cup {MkStr(Str(v)) : v \in FloatInputs \cup {i \in IntInputs : i.e <= MaxStrZeros}}

Inputs == IntInputs \cup FloatInputs \cup StrInputs \cup {NoneV, ObjV}

\* fractional's float(value) is exact (a double holds MaxExactDigits digits) and
\* the arithmetic of Fraction.limit_denominator stays within the integers of the model
FracFits(value) ==
  LET c == ToFloat(value)
  IN (c.ok /\ c.val.sp = "fin") =>
        /\ NumDigits(c.val.m) + c.val.e <= MaxExactDigits
        /\ c.val.e < 0 => 0 - c.val.e <= MaxFracDigits

(***************************************************************************)
(* The calls                                                               *)
(***************************************************************************)
Init ==
  /\ input \in Inputs
  /\ op = "none"
  /\ arg = 0
  /\ pc = "idle"
  /\ cur = <<>>
  /\ start = <<>>
  /\ passes = 0
  /\ result = NoResult
  /\ round = 1
  /\ first = NoResult

Finish(o, a, r) ==
  /\ op' = o
  /\ arg' = a
  /\ result' = r
  /\ pc' = "done"
  /\ UNCHANGED <<input, cur, start, passes, round, first>>

CallOrdinal ==
  /\ pc = "idle" /\ round = 1
  /\ Finish("ordinal", 0, ordinal(input))

CallApnumber ==
  /\ pc = "idle" /\ round = 1
  /\ Finish("apnumber", 0, apnumber(input))

CallIntword ==
  /\ pc = "idle" /\ round = 1
  /\ \E prec \in 0..MaxPrec, tieUp \in BOOLEAN :
        Finish("intword", prec, intword(input, prec, tieUp))

CallFractional ==
  /\ pc = "idle" /\ round = 1
  /\ FracFits(input)
  /\ \E tieUp \in BOOLEAN : Finish("fractional", 0, fractional(input, tieUp))

CallScientific ==
  /\ pc = "idle" /\ round = 1
  /\ \E precision \in 0..MaxPrecision, tieUp \in BOOLEAN :
        Finish("scientific", precision, scientific(input, precision, tieUp))

\* intcomma(value): the try block, then orig = str(value)
CallIntcomma ==
  /\ pc = "idle"
  /\ op' = "intcomma"
  /\ LET c == IntcommaCheck(input)
     IN IF ~c.ok
        THEN /\ result' = (IF Caught(c.exc) THEN Ret(input) ELSE Raise(c.exc))
             /\ pc' = "done"
             /\ UNCHANGED <<cur, start>>
        ELSE /\ cur' = Str(input)
             /\ start' = Str(input)
             /\ pc' = "sub"
             /\ UNCHANGED result
  /\ passes' = 0
  /\ UNCHANGED <<input, arg, round, first>>

\* re.sub, the comparison, and either the return or the recursive call's try block
IntcommaPass ==
  /\ pc = "sub"
  /\ LET st == IntcommaStep(cur)
         c  == IntcommaCheck(MkStr(st.text))
     IN IF st.ret \/ ~c.ok
        THEN /\ result' = (IF st.ret \/ Caught(c.exc) THEN Ret(MkStr(st.text))
                           ELSE Raise(c.exc))
             /\ pc' = "done"
             /\ UNCHANGED cur
        ELSE /\ cur' = st.text
             /\ pc' = "sub"
             /\ UNCHANGED result
  /\ passes' = passes + 1
  /\ UNCHANGED <<input, op, arg, start, round, first>>

\* intcomma applied to its own result
Reapply ==
  /\ pc = "done" /\ op = "intcomma" /\ round = 1 /\ result.tag = "ret"
  /\ input' = result.val
  /\ first' = result
  /\ round' = 2
  /\ pc' = "idle"
  /\ op' = "none"
  /\ result' = NoResult
  /\ cur' = <<>>
  /\ start' = <<>>
  /\ passes' = 0
  /\ UNCHANGED arg

Next ==
  \/ CallOrdinal
  \/ CallApnumber
  \/ CallIntword
  \/ CallFractional
  \/ CallScientific
  \/ CallIntcomma
  \/ IntcommaPass
  \/ Reapply

Spec == Init /\ [][Next]_vars

(***************************************************************************)
(* Properties                                                              *)
(***************************************************************************)
Done(o) == pc = "done" /\ op = o /\ round = 1

T(s) == Ret(MkStr(s))

Max(a, b) == IF a > b THEN a ELSE b

\* float(value) succeeds with a finite number
NumericFinite(v) == ToFloat(v).ok /\ ToFloat(v).val.sp = "fin"

AbsV(f) == [f EXCEPT !.sign = 1]

\* the value is no number: a wrong type, or text that float() rejects even
\* without its commas
Uncoercible(v) ==
  \/ v.kind \in {"none", "obj"}
  \/ v.kind = "str" /\ ~ParseFloat(Remove(v.s, ",")).ok

\* C1: whenever the input cannot be coerced to a number, each of the six
\* operations returns exactly the original input.
C1_PassThrough ==
  (pc = "done" /\ round = 1 /\ Uncoercible(input)) => result = Ret(input)

\* C2: no operation raises: every call completes by returning a string or the
\* original input.
C2_NoRaise ==
  (pc = "done" /\ round = 1) =>
     /\ result.tag = "ret"
     /\ result.val.kind = "str" \/ result.val = input

\* position of the first "." of a text (0 when there is none)
DotAt(s) ==
  LET ds == {i \in 1..Len(s) : s[i] = "."}
  IN IF ds = {} THEN 0 ELSE CHOOSE i \in ds : \A j \in ds : i <= j

\* number of integer digits of the mantissa a text starts with
MantissaDigits(s) == DigitRunEnd(s, 1) - 1

\* 10^lo <= v < 10^hi for a positive int v
InRange(v, lo, hi) ==
  v.kind = "int" /\ v.sign > 0 /\ v.m > 0 /\ lo < NumDigits(v.m) + v.e /\ NumDigits(v.m) + v.e <= hi

\* C3 (as stated): for every integer 10^6 <= v < 10^100 and the default format,
\* the mantissa intword displays has at most three integer digits.
C3_Original ==
  (Done("intword") /\ arg = 1 /\ InRange(input, 6, 100)) =>
     MantissaDigits(result.val.s) <= 3

\* C3 (amended): for every integer 10^6 <= v < 10^36 and the default format,
\* intword never displays a mantissa of 1000 or more: the mantissa has at most
\* three integer digits, and a value whose mantissa would format to 1000.0 is
\* shown with the next magnitude word.
C3_MantissaBelowThousand ==
  (Done("intword") /\ arg = 1 /\ InRange(input, 6, 36)) =>
     /\ result.tag = "ret" /\ result.val.kind = "str"
     /\ MantissaDigits(result.val.s) \in 1..3
     /\ DotAt(result.val.s) = MantissaDigits(result.val.s) + 1
     /\ result.val.s[Len(result.val.s)] \in {human_powers[i] : i \in 1..11}

\* 999,999,000 is promoted from "1000.0 million" to "1.0 billion"
C3_Witness ==
  /\ Done("intword") /\ arg = 1
  /\ input = NormInt(1, 999999, 3)
  /\ result = T(<<"1", ".", "0", " ", "billion">>)

\* the glyphs of an exponent x as C4 describes them
ExpGlyphs(x) ==
  (IF x < 0 THEN <<"^-">> ELSE <<>>)
    \o [i \in 1..NumDigits(Abs(x)) |-> exponents(NatToStr(Abs(x))[i])]

SmallVal(v) == v.sign * v.m * Pow10(v.e)

\* C4: for every finite numeric input and every precision, the exponent is
\* rendered normalized: unsigned when positive, the superscript minus and the
\* magnitude without a leading zero when negative.
C4_ExponentNormalized ==
  (Done("scientific") /\ input.kind \in {"int", "float"} /\ NumericFinite(input)) =>
     \E tieUp \in BOOLEAN :
        LET fv    == ToFloat(input).val
            parts == Split(FormatE(arg, AbsV(fv), tieUp), "e")
            x     == SmallVal(ParseInt(parts[2]).val)
        IN result = T(parts[1] \o <<" ", "x", " ", "1", "0">>
                        \o (IF fv.sign < 0 THEN <<"^-">> ELSE <<>>) \o ExpGlyphs(x))

\* C10: the superscript minus is prefixed exactly when the value is negative;
\* a "-" elsewhere in the input's text is neither removed nor counted.
C10_LeadingSignOnly ==
  (Done("scientific") /\ NumericFinite(input)) =>
     \E tieUp \in BOOLEAN :
        LET fv == ToFloat(input).val
        IN result = ScientificText(FormatE(arg, AbsV(fv), tieUp), fv.sign < 0)

\* start of the leading run of digits of a text, after an optional "-"
LeadStart(s) == IF Len(s) >= 1 /\ s[1] = "-" THEN 2 ELSE 1

\* length of that run
LeadLen(s) == DigitRunEnd(s, LeadStart(s)) - LeadStart(s)

\* a run of digits with a comma before every group of three counted from its
\* right end: every fourth character from the right is a comma
Grouped(ds) ==
  LET n == Len(ds)
      g == IF n = 0 THEN 0 ELSE n + (n - 1) \div 3
  IN [k \in 1..g |->
        LET j == g - k + 1
        IN IF j % 4 = 0 THEN "," ELSE ds[n - (j - j \div 4) + 1]]

\* the text s with the run of digits that starts at i0 grouped
GroupedAt(s, i0) ==
  LET i1 == DigitRunEnd(s, i0)
  IN SubSeq(s, 1, i0 - 1) \o Grouped(SubSeq(s, i0, i1 - 1)) \o SubSeq(s, i1, Len(s))

\* C5 (as stated): for every integer, float or numeral-string input the result
\* is the input's text with the digits of the integer part (what follows an
\* optional sign) grouped in threes from the right, the rest unchanged.
C5_Original ==
  (Done("intcomma") /\ ToFloat(input).ok) =>
     result = T(GroupedAt(Str(input), 1 + SignLen(Str(input))))

\* C5 (amended): for every integer or float input, and every numeral string
\* that intcomma accepts, the result is the input's text with commas inserted
\* before every group of three digits counted from the right end of the
\* leading run of digits, which may follow a leading minus sign only; the minus
\* sign is kept, no comma is put after it or at the start of the text, and
\* everything after that run (a decimal point and its digits, an exponent) is
\* unchanged.
C5_GroupsLeadingDigits ==
  (Done("intcomma") /\ IntcommaCheck(input).ok) =>
     LET s == Str(input)
         r == result.val.s
     IN /\ result = T(GroupedAt(s, LeadStart(s)))
        /\ Remove(r, ",") = Remove(s, ",")
        /\ (Len(r) >= 1 /\ r[1] = ",") => s[1] = ","
        /\ (Len(r) >= 2 /\ r[1] = "-" /\ r[2] = ",") => s[2] = ","
        /\ DotAt(s) > 0 =>
              SubSeq(r, Len(r) - (Len(s) - DotAt(s)), Len(r)) = SubSeq(s, DotAt(s), Len(s))

\* -1234567.5 becomes "-1,234,567.5"
C5_Witness ==
  /\ Done("intcomma")
  /\ input = NormDec(-1, 12345678, -4)
  /\ result = T(<<"-", "1", ",", "2", "3", "4", ".", "5", "6", "7", "8">>)

\* C6: intcomma(intcomma(x)) = intcomma(x) for every input x.
C6_Idempotent ==
  (pc = "done" /\ op = "intcomma" /\ round = 2) => result = first

\* 1234567 gives "1,234,567", and "1,234,567" gives itself
C6_Witness ==
  /\ pc = "done" /\ op = "intcomma" /\ round = 2
  /\ first = T(<<"1", ",", "2", "3", "4", ",", "5", "6", "7">>)
  /\ result = first

\* n mod 100, read off the decimal text of n: its last two digits, or their
\* complement to 100 when n is negative
Rem100(v) ==
  LET s    == IntStr(v)
      last == DigitsVal(SubSeq(s, Max(LeadStart(s), Len(s) - 1), Len(s)))
  IN IF v.sign > 0 THEN last ELSE (100 - last) % 100

Suffix(r100) ==
  IF r100 \in {11, 12, 13} THEN <<"t", "h">>
  ELSE CASE r100 % 10 = 1 -> <<"s", "t">>
         [] r100 % 10 = 2 -> <<"n", "d">>
         [] r100 % 10 = 3 -> <<"r", "d">>
         [] OTHER         -> <<"t", "h">>

\* C7: for every integer n, negative ones included, ordinal(n) is the decimal
\* text of n followed by "th" when n mod 100 is 11, 12 or 13, and otherwise by
\* the suffix the table gives for n mod 10.
C7_OrdinalSuffix ==
  (Done("ordinal") /\ input.kind = "int") =>
     result = T(IntStr(input) \o Suffix(Rem100(input)))

\* -89 mod 100 is 11: "-89th"; and 112 is "112th"
C7_Witness ==
  /\ Done("ordinal")
  /\ input = NormInt(-1, 89, 0)
  /\ result = T(<<"-", "8", "9", "t", "h">>)

\* p/q is at least as close to n/d as every fraction with a denominator up to
\* maxd (for each denominator, the two fractions around n/d)
Closest(p, q, n, d, maxd) ==
  \A q1 \in 1..maxd :
     \A p1 \in {(n * q1) \div d, (n * q1) \div d + 1} :
        Abs(p * d - n * q) * q1 <= Abs(p1 * d - n * q1) * q

\* first position of the character c in a text (0 when there is none)
IndexOf(s, c) ==
  LET is == {i \in 1..Len(s) : s[i] = c}
  IN IF is = {} THEN 0 ELSE CHOOSE i \in is : \A j \in is : i <= j

\* the numerator and the denominator a result shows (0/1 when it shows none)
ShownNum(s) ==
  IF IndexOf(s, "/") = 0 THEN 0
  ELSE SmallVal(ParseInt(SubSeq(s, IndexOf(s, " ") + 1, IndexOf(s, "/") - 1)).val)

ShownDen(s) ==
  IF IndexOf(s, "/") = 0 THEN 1
  ELSE SmallVal(ParseInt(SubSeq(s, IndexOf(s, "/") + 1, Len(s))).val)

Commas(s) == Cardinality({i \in 1..Len(s) : s[i] = ","})

\* C9 (as stated): starting from any numeral text, the number of passes of the
\* grouping loop is bounded by the number of digits of the integer part.
C9_Original ==
  (op = "intcomma" /\ round = 1 /\ NumericFinite(MkStr(Remove(start, ",")))) =>
     passes <= LeadLen(start)

\* C9 (amended): each pass of the grouping loop either inserts exactly one
\* comma, shrinking the leading run of ungrouped digits by three, or changes
\* nothing; intcomma returns at the first pass that changes nothing, with the
\* text of that pass; and the number of passes is bounded by the number of
\* digits of the integer part, or by one when the integer part has no digit.
C9_PassesToFixedPoint ==
  [][(pc = "sub") =>
       /\ passes' = passes + 1
       /\ passes' <= Max(1, LeadLen(start))
       /\ pc' = "sub" =>
            /\ Len(cur') = Len(cur) + 1
            /\ Commas(cur') = Commas(cur) + 1
            /\ Remove(cur', ",") = Remove(cur, ",")
            /\ LeadLen(cur') = LeadLen(cur) - 3
       /\ pc' = "done" =>
            /\ cur' = cur
            /\ LeadLen(cur) <= 3
            /\ result' = T(cur)]_vars

\* 1234567 takes three passes: two that insert a comma and one that changes nothing
C9_Witness ==
  /\ pc = "done" /\ op = "intcomma" /\ round = 1
  /\ start = <<"1", "2", "3", "4", "5", "6", "7">>
  /\ passes = 3
  /\ result = T(<<"1", ",", "2", "3", "4", ",", "5", "6", "7">>)

====
